---- MODULE Spec2Model ----
(***************************************************************************)
(* Model of src/server.js: the Telegram content-manager bot.               *)
(*                                                                         *)
(* The state is the userStates Map, the JavaScript arrays the session      *)
(* objects point to (session objects are copied shallowly by {...state},   *)
(* so the streamingLinks / episodes arrays are shared between copies and   *)
(* are mutated in place by push), the Content collection, the invocations  *)
(* of the asynchronous message handler that are suspended at an await,     *)
(* the clock read by Date.now(), and the last reply sent.                  *)
(*                                                                         *)
(* The message handler is an async function: between its awaits it runs    *)
(* to completion, and at an await (getFile, downloadThumbnail,             *)
(* content.save) other invocations may run.  Each synchronous segment is   *)
(* one action.                                                             *)
(***************************************************************************)
EXTENDS Integers, Sequences, FiniteSets, Bags, TLC

(***************************************************************************)
(* Bounds of the model.                                                    *)
(***************************************************************************)
MaxEvents == 5      \* chat updates delivered in one behaviour of Spec
MaxSoloEvents == 6  \* chat updates delivered in one behaviour of SpecSolo
MaxSeriesEvents == 9  \* chat updates delivered in one behaviour of SpecSeries
MaxUploadEvents == 6  \* chat updates delivered in one behaviour of SpecUpload
MaxInFlight == 2    \* handler invocations suspended at an await at once
MaxClock == 1       \* readings of Date.now() are 0..MaxClock

Users == {"u1", "u2"}

(***************************************************************************)
(* Message texts are sequences of characters, so that isNaN and parseInt   *)
(* are computed on the characters.                                         *)
(***************************************************************************)
TxtA     == <<"a">>
TxtDone  == <<"/", "d", "o", "n", "e">>
TxtOne   == <<"1">>
TxtTwo   == <<"2">>
TxtZero  == <<"0">>

Texts == {TxtA, TxtDone, TxtOne, TxtTwo, TxtZero}

Exts == {".jpg"}

(***************************************************************************)
(* JavaScript values.  undefined for a string-valued field is the empty    *)
(* tuple (a message text is never empty: '' is falsy and is treated as no  *)
(* text); numbers are tagged so that NaN and undefined are values.         *)
(***************************************************************************)
Undefined == <<>>
NoRef     == 0
UndefNum  == [k |-> "undefined", v |-> 0]
NaN       == [k |-> "NaN", v |-> 0]
Num(n)    == [k |-> "num", v |-> n]

\* a >= b on JavaScript numbers: false when either side is NaN or undefined
JsGE(a, b) == a.k = "num" /\ b.k = "num" /\ a.v >= b.v

\* a + 1
JsInc(a) == IF a.k = "num" THEN Num(a.v + 1) ELSE NaN

DecDigits == {"0", "1", "2", "3", "4", "5", "6", "7", "8", "9"}
HexDigits == DecDigits \cup {"a", "b", "c", "d", "e", "f", "A", "B", "C", "D", "E", "F"}
WhiteSpace == {" "}

DigitVal(c) ==
    CASE c = "0" -> 0 [] c = "1" -> 1 [] c = "2" -> 2 [] c = "3" -> 3
      [] c = "4" -> 4 [] c = "5" -> 5 [] c = "6" -> 6 [] c = "7" -> 7
      [] c = "8" -> 8 [] c = "9" -> 9
      [] c \in {"a", "A"} -> 10 [] c \in {"b", "B"} -> 11
      [] c \in {"c", "C"} -> 12 [] c \in {"d", "D"} -> 13
      [] c \in {"e", "E"} -> 14 [] c \in {"f", "F"} -> 15

RECURSIVE TrimLeft(_)
TrimLeft(s) ==
    IF s # <<>> /\ Head(s) \in WhiteSpace THEN TrimLeft(Tail(s)) ELSE s

RECURSIVE TrimRight(_)
TrimRight(s) ==
    IF s # <<>> /\ s[Len(s)] \in WhiteSpace
    THEN TrimRight(SubSeq(s, 1, Len(s) - 1)) ELSE s

AllIn(s, D) == \A i \in 1..Len(s) : s[i] \in D

\* position of the first character of s that is in D, 0 when there is none
FirstIn(s, D) ==
    IF \E i \in 1..Len(s) : s[i] \in D
    THEN CHOOSE i \in 1..Len(s) : s[i] \in D /\ \A j \in 1..(i - 1) : s[j] \notin D
    ELSE 0

StripSign(s) == IF s # <<>> /\ Head(s) \in {"+", "-"} THEN Tail(s) ELSE s

\* StrUnsignedDecimalLiteral without the Infinity alternative
IsUnsignedDecimal(s) ==
    LET e    == FirstIn(s, {"e", "E"})
        mant == IF e = 0 THEN s ELSE SubSeq(s, 1, e - 1)
        expo == IF e = 0 THEN <<>> ELSE SubSeq(s, e + 1, Len(s))
        d    == FirstIn(mant, {"."})
        ip   == IF d = 0 THEN mant ELSE SubSeq(mant, 1, d - 1)
        fp   == IF d = 0 THEN <<>> ELSE SubSeq(mant, d + 1, Len(mant))
    IN  /\ AllIn(ip, DecDigits) /\ AllIn(fp, DecDigits)
        /\ Len(ip) + Len(fp) > 0
        /\ e # 0 => (StripSign(expo) # <<>> /\ AllIn(StripSign(expo), DecDigits))

IsHexLiteral(s) ==
    /\ Len(s) > 2
    /\ s[1] = "0" /\ s[2] \in {"x", "X"}
    /\ AllIn(SubSeq(s, 3, Len(s)), HexDigits)

TxtInfinity == <<"I", "n", "f", "i", "n", "i", "t", "y">>

\* Number(text) is not NaN: text is a StringNumericLiteral
IsNumericString(s) ==
    LET t == TrimRight(TrimLeft(s))
    IN  \/ t = <<>>
        \/ StripSign(t) = TxtInfinity
        \/ IsUnsignedDecimal(StripSign(t))
        \/ IsHexLiteral(t)

\* isNaN(text) for a string argument
JsIsNaN(s) == ~IsNumericString(s)

RECURSIVE DigitsValue(_, _, _)
DigitsValue(s, radix, acc) ==
    IF s = <<>> THEN acc
    ELSE DigitsValue(Tail(s), radix, acc * radix + DigitVal(Head(s)))

\* the longest prefix of s made of digits of the radix
DigitPrefix(s, D) ==
    LET stop == FirstIn(s, {s[i] : i \in 1..Len(s)} \ D)
    IN  IF stop = 0 THEN s ELSE SubSeq(s, 1, stop - 1)

\* parseInt(text) with no radix argument
ParseInt(s) ==
    LET t    == TrimLeft(s)
        neg  == t # <<>> /\ Head(t) = "-"
        u    == StripSign(t)
        hex  == Len(u) >= 2 /\ u[1] = "0" /\ u[2] \in {"x", "X"}
        body == IF hex THEN SubSeq(u, 3, Len(u)) ELSE u
        pre  == DigitPrefix(body, IF hex THEN HexDigits ELSE DecDigits)
        val  == DigitsValue(pre, IF hex THEN 16 ELSE 10, 0)
    IN  IF pre = <<>> THEN NaN ELSE Num(IF neg THEN -val ELSE val)


(***************************************************************************)
(* State.                                                                  *)
(***************************************************************************)
VARIABLES
    userStates,   \* the Map userStates: a function on the ids that have an entry
    arrays,       \* the arrays session objects refer to: reference -> contents
    catalog,      \* the Content collection, in insertion order
    inflight,     \* bag of the handler invocations suspended at an await
    now,          \* the reading of Date.now()
    out,          \* the last step: whose update, its kind, and the reply sent
    nEvents       \* updates delivered so far

vars == <<userStates, arrays, catalog, inflight, now, out, nEvents>>

\* texts of ctx.reply
RWelcome        == "Welcome to Content Manager Bot! Choose an option:"
RMovieTitle     == "Please send the movie title:"
RSeriesTitle    == "Please send the web series title:"
RNoContent      == "No content available yet."
RRecent         == "Recent Content:"
RFetchError     == "Error fetching content."
RNoEdit         == "No content available to edit."
RSelectEdit     == "Select content to edit:"
REditFetchError == "Error fetching content for editing."
RSendThumbnail  == "Great! Now please send the thumbnail image:"
RMovieLinks     == "Thumbnail received! Now please send streaming links (one link per message). Send /done when finished:"
RHowMany        == "Thumbnail received! How many episodes does this web series have?"
RDownloadError  == "Error downloading thumbnail. Please try again."
RSendImage      == "Please send an image for the thumbnail."
RNeedLink       == "Please add at least one streaming link before finishing."
RMovieAdded     == "Movie added successfully!"
RMovieSaveError == "Error saving movie. Please try again."
RLinkAdded      == "Link added! n link(s) so far. Send another link or /done to finish."
RFirstEpisode   == "Starting with episode 1. Please send the title for episode 1:"
RValidNumber    == "Please send a valid number for episode count."
REpisodeLink    == "Now please send the streaming link for episode n:"
RSeriesAdded    == "Web series added successfully with n episodes!"
RSeriesSaveError == "Error saving web series. Please try again."
RNextEpisode    == "Now for episode n. Please send the title:"
RValidLink      == "Please send a valid streaming link."
RNotFound       == "Content not found."
REditing        == "Editing: What would you like to edit?"
REditLoadError  == "Error loading content for editing."
NoReply         == ""

Reply(text, n) == [text |-> text, n |-> n]
Silent == Reply(NoReply, UndefNum)

\* updates: a text message, a photo message, any other message (sticker,
\* document, ...), and the steps that are not message updates
TextMsg(t) == [kind |-> "text", text |-> t]
PhotoMsg   == [kind |-> "photo", text |-> Undefined]
OtherMsg   == [kind |-> "other", text |-> Undefined]
Messages   == {TextMsg(t) : t \in Texts} \cup {PhotoMsg, OtherMsg}
Ev(kind)   == [kind |-> kind, text |-> Undefined]

MessageKinds == {"text", "photo", "other"}

\* message.text / message.photo as conditions
HasText(m)  == m.kind = "text"
HasPhoto(m) == m.kind = "photo"

(***************************************************************************)
(* Session objects.  The streamingLinks and episodes fields hold a         *)
(* reference into arrays; NoRef is undefined.                              *)
(***************************************************************************)
NewMovieState(ref) ==
    [type |-> "movie", step |-> "title", title |-> Undefined,
     thumbnail |-> Undefined, streamingLinks |-> ref, episodes |-> NoRef,
     episodeCount |-> UndefNum, currentEpisode |-> UndefNum,
     currentEpisodeTitle |-> Undefined]

NewSeriesState(ref) ==
    [type |-> "webseries", step |-> "title", title |-> Undefined,
     thumbnail |-> Undefined, streamingLinks |-> NoRef, episodes |-> ref,
     episodeCount |-> UndefNum, currentEpisode |-> UndefNum,
     currentEpisodeTitle |-> Undefined]

\* mutant: set keeps only the entry it writes
MapSet_OnlyEntry(us, u, s) == [x \in {u} |-> s]

\* userStates.set(u, s) and userStates.delete(u)
MapSet(us, u, s) == [x \in (DOMAIN us) \cup {u} |-> IF x = u THEN s ELSE us[x]]
MapDelete(us, u) == [x \in (DOMAIN us) \ {u} |-> us[x]]
MapHas(us, u)    == u \in DOMAIN us

\* a reference no array has yet
FreshRef(arr) == CHOOSE r \in 1..(Cardinality(DOMAIN arr) + 1) :
                    r \notin DOMAIN arr /\ \A q \in 1..(r - 1) : q \in DOMAIN arr

ArrSet(arr, r, v) == [x \in (DOMAIN arr) \cup {r} |-> IF x = r THEN v ELSE arr[x]]

\* the references reachable from the Map and from the suspended handlers
LiveRefs(us, inf) ==
    ({us[u].streamingLinks : u \in DOMAIN us} \cup {us[u].episodes : u \in DOMAIN us}
       \cup {h.state.streamingLinks : h \in BagToSet(inf)}
       \cup {h.state.episodes : h \in BagToSet(inf)}) \ {NoRef}

\* unreachable arrays are garbage
Collect(us, arr, inf) == [r \in (DOMAIN arr) \cap LiveRefs(us, inf) |-> arr[r]]

(***************************************************************************)
(* Content documents.  new Content({...}) copies the arrays it is given;   *)
(* an array path that is not given defaults to []; createdAt defaults to   *)
(* Date.now().                                                             *)
(***************************************************************************)
NoContent ==
    [type |-> "none", title |-> Undefined, thumbnail |-> Undefined,
     streamingLinks |-> <<>>, episodes |-> <<>>, createdAt |-> 0]

\* mutant: only the first link is taken into the document
MovieContent_FirstLinkOnly(state, links, t) ==
    [type |-> state.type, title |-> state.title, thumbnail |-> state.thumbnail,
     streamingLinks |-> SubSeq(links, 1, 1), episodes |-> <<>>, createdAt |-> t]

MovieContent(state, links, t) ==
    [type |-> state.type, title |-> state.title, thumbnail |-> state.thumbnail,
     streamingLinks |-> links, episodes |-> <<>>, createdAt |-> t]

SeriesContent(state, episodes, t) ==
    [type |-> state.type, title |-> state.title, thumbnail |-> state.thumbnail,
     streamingLinks |-> <<>>, episodes |-> episodes, createdAt |-> t]

\* mutant: the episode takes the link for its title
Episode_TitledByLink(state, link) ==
    [episodeNumber |-> state.currentEpisode, title |-> link,
     streamingLink |-> link]

Episode(state, link) ==
    [episodeNumber |-> state.currentEpisode, title |-> state.currentEpisodeTitle,
     streamingLink |-> link]

\* a suspended invocation of the message handler: its locals
Handler(u, pc, state, filename, content) ==
    [user |-> u, pc |-> pc, state |-> state, filename |-> filename,
     content |-> content]

\* `thumbnail_${Date.now()}${path.extname(file.file_path)}`
Filename(t, ext) == <<"thumbnail_", t, ext>>

\* `/thumbnails/${filename}`
ThumbnailPath(filename) == <<"/thumbnails/">> \o filename


(***************************************************************************)
(* The effect of one synchronous segment of a handler: the Map, the        *)
(* arrays, the suspended handlers and the collection after it, and the     *)
(* reply it sent.                                                          *)
(***************************************************************************)
Eff(us, arr, inf, cat, reply) ==
    [us |-> us, arr |-> arr, inf |-> inf, cat |-> cat, reply |-> reply]

\* the segment changed nothing and sent `reply`
Same(reply) == Eff(userStates, arrays, inflight, catalog, reply)

\* the segment only stored session s for u
Stored(u, s, reply) ==
    Eff(MapSet(userStates, u, s), arrays, inflight, catalog, reply)

\* the segment ended at an await: handler h is suspended
Suspended(h) == Eff(userStates, arrays, inflight (+) SetToBag({h}), catalog, Silent)

Apply(u, ev, e) ==
    /\ userStates' = e.us
    /\ inflight' = e.inf
    /\ arrays' = Collect(e.us, e.arr, e.inf)
    /\ catalog' = e.cat
    /\ out' = [user |-> u, kind |-> ev.kind, reply |-> e.reply]

(***************************************************************************)
(* bot.start, bot.hears                                                    *)
(***************************************************************************)
\* mutant: the start command clears the sessions
OnStart_DropsSessions ==
    Eff([u \in {} |-> NewMovieState(NoRef)], arrays, inflight, catalog,
        Reply(RWelcome, UndefNum))

OnStart == Same(Reply(RWelcome, UndefNum))

OnAddMovie(u) ==
    LET ref == FreshRef(arrays)
    IN  Eff(MapSet(userStates, u, NewMovieState(ref)), ArrSet(arrays, ref, <<>>),
            inflight, catalog, Reply(RMovieTitle, UndefNum))

OnAddWebSeries(u) ==
    LET ref == FreshRef(arrays)
    IN  Eff(MapSet(userStates, u, NewSeriesState(ref)), ArrSet(arrays, ref, <<>>),
            inflight, catalog, Reply(RSeriesTitle, UndefNum))

\* Content.find().sort({createdAt: -1}).limit(10): found tells whether the
\* query succeeded
OnViewContent(found) ==
    IF ~found THEN Same(Reply(RFetchError, UndefNum))
    ELSE IF Len(catalog) = 0 THEN Same(Reply(RNoContent, UndefNum))
    ELSE Same(Reply(RRecent, UndefNum))

OnEditContent(found) ==
    IF ~found THEN Same(Reply(REditFetchError, UndefNum))
    ELSE IF Len(catalog) = 0 THEN Same(Reply(RNoEdit, UndefNum))
    ELSE Same(Reply(RSelectEdit, UndefNum))

(***************************************************************************)
(* bot.on('callback_query').  Callback data is a sequence of tokens:       *)
(* <<"edit_", i>> is `edit_${item._id}` of the i-th document,              *)
(* <<"edit_", "title_", i>> is a button of the sub-menu.                   *)
(***************************************************************************)
StartsWithEdit(data) == data # <<>> /\ Head(data) = "edit_"

\* Content.findById(contentId): "found", "null", or "throw" for an id that
\* does not cast to an ObjectId or a failed query
FindById(contentId, ok) ==
    IF ~ok \/ Len(contentId) # 1 \/ contentId[1] \notin Nat THEN "throw"
    ELSE IF contentId[1] \in 1..Len(catalog) THEN "found" ELSE "null"

OnCallbackQuery(data, ok) ==
    IF ~StartsWithEdit(data) THEN Same(Silent)
    ELSE LET r == FindById(Tail(data), ok)
         IN  CASE r = "throw" -> Same(Reply(REditLoadError, UndefNum))
               [] r = "null"  -> Same(Reply(RNotFound, UndefNum))
               [] r = "found" -> Same(Reply(REditing, UndefNum))

(***************************************************************************)
(* bot.on('message'): the switch on state.step, up to the first await.     *)
(***************************************************************************)
\* mutant: a message without a session is answered with a prompt
WithoutState_Reprompts(u) == Same(Reply(RSendImage, UndefNum))

\* if (!state) return;
WithoutState(u) == Same(Silent)

TitleCase(u, state, m) ==
    IF HasText(m)
    THEN Stored(u, [state EXCEPT !.title = m.text, !.step = "thumbnail"],
                Reply(RSendThumbnail, UndefNum))
    ELSE Same(Silent)

\* the handler is suspended at await ctx.telegram.getFile(fileId)
ThumbnailCase(u, state, m) ==
    IF HasPhoto(m)
    THEN Suspended(Handler(u, "getFile", state, Undefined, NoContent))
    ELSE Same(Reply(RSendImage, UndefNum))

\* mutant: the check for an empty link list is missing
NoLinks_Never(links) == FALSE

\* state.streamingLinks.length === 0
NoLinks(links) == Len(links) = 0

\* x || []: the array x refers to, or a new empty array
OrEmpty(arr, ref) == IF ref = NoRef THEN FreshRef(arr) ELSE ref
Deref(arr, ref)   == IF ref \in DOMAIN arr THEN arr[ref] ELSE <<>>

MovieLinksCase(u, state, m) ==
    IF HasText(m) /\ m.text = TxtDone
    THEN IF NoLinks(Deref(arrays, state.streamingLinks))
         THEN Same(Reply(RNeedLink, UndefNum))
         ELSE Suspended(Handler(u, "saveMovie", state, Undefined,
                  MovieContent(state, Deref(arrays, state.streamingLinks), now)))
    ELSE IF HasText(m)
    THEN LET ref   == OrEmpty(arrays, state.streamingLinks)
             links == Append(Deref(arrays, ref), m.text)
         IN  Eff(MapSet(userStates, u, [state EXCEPT !.streamingLinks = ref]),
                 ArrSet(arrays, ref, links), inflight, catalog,
                 Reply(RLinkAdded, Num(Len(links))))
    ELSE Same(Silent)

\* message.text && !isNaN(message.text)
IsCount(m) == HasText(m) /\ ~JsIsNaN(m.text)

EpisodeCountCase(u, state, m) ==
    IF IsCount(m)
    THEN Stored(u, [state EXCEPT !.episodeCount = ParseInt(m.text),
                                 !.currentEpisode = Num(1),
                                 !.step = "episode_title"],
                Reply(RFirstEpisode, UndefNum))
    ELSE Same(Reply(RValidNumber, UndefNum))

EpisodeTitleCase(u, state, m) ==
    IF HasText(m)
    THEN Stored(u, [state EXCEPT !.currentEpisodeTitle = m.text,
                                 !.step = "episode_link"],
                Reply(REpisodeLink, state.currentEpisode))
    ELSE Same(Silent)

\* state.currentEpisode >= state.episodeCount
AllEpisodesAdded(state) == JsGE(state.currentEpisode, state.episodeCount)

\* episodes.push(...) acts on the array the session refers to, before the
\* branch on the episode number
EpisodeLinkCase(u, state, m) ==
    IF HasText(m)
    THEN LET ref      == OrEmpty(arrays, state.episodes)
             episodes == Append(Deref(arrays, ref), Episode(state, m.text))
             pushed   == ArrSet(arrays, ref, episodes)
         IN  IF AllEpisodesAdded(state)
             THEN Eff(userStates, pushed,
                      inflight (+) SetToBag({Handler(u, "saveSeries", state, Undefined,
                                                SeriesContent(state, episodes, now))}),
                      catalog, Silent)
             ELSE Eff(MapSet(userStates, u,
                             [state EXCEPT !.episodes = ref,
                                           !.currentEpisode = JsInc(state.currentEpisode),
                                           !.step = "episode_title"]),
                      pushed, inflight, catalog,
                      Reply(RNextEpisode, JsInc(state.currentEpisode)))
    ELSE Same(Reply(RValidLink, UndefNum))

OnMessage(u, m) ==
    IF ~MapHas(userStates, u) THEN WithoutState(u)
    ELSE LET state == userStates[u]
         IN  CASE state.step = "title"         -> TitleCase(u, state, m)
               [] state.step = "thumbnail"     -> ThumbnailCase(u, state, m)
               [] state.step = "movie_links"   -> MovieLinksCase(u, state, m)
               [] state.step = "episode_count" -> EpisodeCountCase(u, state, m)
               [] state.step = "episode_title" -> EpisodeTitleCase(u, state, m)
               [] state.step = "episode_link"  -> EpisodeLinkCase(u, state, m)
               [] OTHER                        -> Same(Silent)


(***************************************************************************)
(* bot.on('message'): the segments after each await.  h is the suspended   *)
(* invocation, with the state it read when it started.                     *)
(***************************************************************************)
Resumed(h) == inflight (-) SetToBag({h})

\* mutant: the catch of the thumbnail case deletes the session
DownloadFailed_DeletesSession(us, u) == MapDelete(us, u)

\* the catch of the thumbnail case leaves the Map alone
DownloadFailed(us, u) == us

\* getFile resolved: the file name is built from the clock and the handler
\* is suspended again in downloadThumbnail; getFile rejected: the catch
AfterGetFile(h, ok, ext) ==
    IF ok
    THEN Eff(userStates, arrays,
             Resumed(h) (+) SetToBag({Handler(h.user, "download", h.state,
                                              Filename(now, ext), NoContent)}),
             catalog, Silent)
    ELSE Eff(DownloadFailed(userStates, h.user), arrays, Resumed(h), catalog,
             Reply(RDownloadError, UndefNum))

\* mutant: a series goes from thumbnail straight to the episode titles
StepAfterThumbnail_SkipsCount(state) ==
    IF state.type = "movie" THEN "movie_links" ELSE "episode_title"

\* mutant: every session goes on to the movie links
StepAfterThumbnail_AlwaysMovie(state) == "movie_links"

\* step: state.type === 'movie' ? 'movie_links' : 'episode_count'
StepAfterThumbnail(state) ==
    IF state.type = "movie" THEN "movie_links" ELSE "episode_count"

\* downloadThumbnail resolved with the path, or threw / rejected
AfterDownload(h, ok) ==
    IF ok
    THEN Eff(MapSet(userStates, h.user,
                    [h.state EXCEPT !.thumbnail = ThumbnailPath(h.filename),
                                    !.step = StepAfterThumbnail(h.state)]),
             arrays, Resumed(h), catalog,
             Reply(IF h.state.type = "movie" THEN RMovieLinks ELSE RHowMany, UndefNum))
    ELSE Eff(DownloadFailed(userStates, h.user), arrays, Resumed(h), catalog,
             Reply(RDownloadError, UndefNum))

\* mutant: the session is not deleted after the save
SaveSucceeded_KeepsSession(us, u) == us

\* userStates.delete(userId) after a save that succeeded
SaveSucceeded(us, u) == MapDelete(us, u)

\* mutant: the catch deletes the session
SaveFailed_DeletesSession(us, u) == MapDelete(us, u)

\* the catch of a save that failed leaves the Map alone
SaveFailed(us, u) == us

\* content.save() resolved or rejected
AfterSave(h, ok) ==
    IF ok
    THEN Eff(SaveSucceeded(userStates, h.user), arrays, Resumed(h),
             Append(catalog, h.content),
             IF h.pc = "saveMovie" THEN Reply(RMovieAdded, UndefNum)
             ELSE Reply(RSeriesAdded, Num(Len(Deref(arrays, h.state.episodes)))))
    ELSE Eff(SaveFailed(userStates, h.user), arrays, Resumed(h), catalog,
             Reply(IF h.pc = "saveMovie" THEN RMovieSaveError ELSE RSeriesSaveError,
                   UndefNum))

(***************************************************************************)
(* Actions.                                                                *)
(***************************************************************************)
CallbackData == {<<"edit_", 1>>, <<"edit_", 2>>, <<"edit_", "title_", 1>>, <<"noop">>}

Init ==
    /\ userStates = [u \in {} |-> NewMovieState(NoRef)]
    /\ arrays = [r \in {} |-> <<>>]
    /\ catalog = <<>>
    /\ inflight = EmptyBag
    /\ now = 0
    /\ out = [user |-> "", kind |-> "init", reply |-> Silent]
    /\ nEvents = 0

\* an update is delivered and its handler runs to its first await or its
\* end; max bounds the updates of the behaviour
Deliver(u, max, ev, e) ==
    /\ nEvents < max
    /\ BagCardinality(e.inf) <= MaxInFlight
    /\ Apply(u, ev, e)
    /\ nEvents' = nEvents + 1
    /\ UNCHANGED now

\* a suspended handler runs its next segment
Continue(h, e) ==
    /\ Apply(h.user, Ev(h.pc), e)
    /\ UNCHANGED <<now, nEvents>>

Start(u, max) == Deliver(u, max, Ev("start"), OnStart)

AddMovie(u, max) == Deliver(u, max, Ev("add_movie"), OnAddMovie(u))

AddWebSeries(u, max) == Deliver(u, max, Ev("add_series"), OnAddWebSeries(u))

ViewContent(u, max) ==
    \E found \in BOOLEAN : Deliver(u, max, Ev("view"), OnViewContent(found))

EditContent(u, max) ==
    \E found \in BOOLEAN : Deliver(u, max, Ev("edit"), OnEditContent(found))

CallbackQuery(u, max) ==
    \E data \in CallbackData, ok \in BOOLEAN :
        Deliver(u, max, Ev("callback"), OnCallbackQuery(data, ok))

Message(u, max) == \E m \in Messages : Deliver(u, max, m, OnMessage(u, m))

GetFileDone ==
    \E h \in BagToSet(inflight), ok \in BOOLEAN, ext \in Exts :
        h.pc = "getFile" /\ Continue(h, AfterGetFile(h, ok, ext))

DownloadDone ==
    \E h \in BagToSet(inflight), ok \in BOOLEAN :
        h.pc = "download" /\ Continue(h, AfterDownload(h, ok))

SaveDone ==
    \E h \in BagToSet(inflight), ok \in BOOLEAN :
        h.pc \in {"saveMovie", "saveSeries"} /\ Continue(h, AfterSave(h, ok))

Tick ==
    /\ now < MaxClock
    /\ now' = now + 1
    /\ out' = [user |-> "", kind |-> "tick", reply |-> Silent]
    /\ UNCHANGED <<userStates, arrays, catalog, inflight, nEvents>>

Next ==
    \/ \E u \in Users : Start(u, MaxEvents)
    \/ \E u \in Users : AddMovie(u, MaxEvents)
    \/ \E u \in Users : AddWebSeries(u, MaxEvents)
    \/ \E u \in Users : ViewContent(u, MaxEvents)
    \/ \E u \in Users : EditContent(u, MaxEvents)
    \/ \E u \in Users : CallbackQuery(u, MaxEvents)
    \/ \E u \in Users : Message(u, MaxEvents)
    \/ GetFileDone
    \/ DownloadDone
    \/ SaveDone
    \/ Tick

Spec == Init /\ [][Next]_vars

\* one user, more updates
Solo == {"u1"}

NextSolo ==
    \/ \E u \in Solo : Start(u, MaxSoloEvents)
    \/ \E u \in Solo : AddMovie(u, MaxSoloEvents)
    \/ \E u \in Solo : AddWebSeries(u, MaxSoloEvents)
    \/ \E u \in Solo : ViewContent(u, MaxSoloEvents)
    \/ \E u \in Solo : EditContent(u, MaxSoloEvents)
    \/ \E u \in Solo : CallbackQuery(u, MaxSoloEvents)
    \/ \E u \in Solo : Message(u, MaxSoloEvents)
    \/ GetFileDone
    \/ DownloadDone
    \/ SaveDone
    \/ Tick

SpecSolo == Init /\ [][NextSolo]_vars

\* one user who adds web series: the menu selection, texts and photos,
\* and the completions of the awaits; more updates still
SeriesMessages == {TextMsg(TxtA), TextMsg(TxtTwo), PhotoMsg}

SeriesMessage(u, max) ==
    \E m \in SeriesMessages : Deliver(u, max, m, OnMessage(u, m))

NextSeries ==
    \/ \E u \in Solo : AddWebSeries(u, MaxSeriesEvents)
    \/ \E u \in Solo : SeriesMessage(u, MaxSeriesEvents)
    \/ GetFileDone
    \/ DownloadDone
    \/ SaveDone
    \/ Tick

SpecSeries == Init /\ [][NextSeries]_vars

\* two users who each get as far as the thumbnail upload: the menu
\* selections, a title text and photos, and the completions of the awaits
\* of the thumbnail case
UploadMessages == {TextMsg(TxtA), PhotoMsg}

UploadMessage(u, max) ==
    \E m \in UploadMessages : Deliver(u, max, m, OnMessage(u, m))

NextUpload ==
    \/ \E u \in Users : AddMovie(u, MaxUploadEvents)
    \/ \E u \in Users : AddWebSeries(u, MaxUploadEvents)
    \/ \E u \in Users : UploadMessage(u, MaxUploadEvents)
    \/ GetFileDone
    \/ DownloadDone
    \/ Tick

SpecUpload == Init /\ [][NextUpload]_vars


(***************************************************************************)
(* Properties.                                                             *)
(***************************************************************************)
StepOf(us, u) == IF MapHas(us, u) THEN us[u].step ELSE "none"
TypeOf(us, u) == IF MapHas(us, u) THEN us[u].type ELSE "none"

MenuKinds == {"add_movie", "add_series"}
SaveKinds == {"saveMovie", "saveSeries"}
LaterSteps == {"movie_links", "episode_count", "episode_title", "episode_link"}

\* the transition table: from step a to step b of a session of type ty
\* ("none": no session)
TableEdge(a, b, ty) ==
    \/ a = "title" /\ b = "thumbnail"
    \/ a = "thumbnail" /\ b = "movie_links" /\ ty = "movie"
    \/ a = "thumbnail" /\ b = "episode_count" /\ ty = "webseries"
    \/ a = "episode_count" /\ b = "episode_title"
    \/ a = "episode_title" /\ b = "episode_link"
    \/ a = "episode_link" /\ b = "episode_title"

HoldsThumbnailAndTitle ==
    \A u \in DOMAIN userStates :
        userStates[u].step \in LaterSteps =>
            userStates[u].thumbnail # Undefined /\ userStates[u].title # Undefined

MovieRecordsHaveLinks ==
    \A i \in 1..Len(catalog) :
        catalog[i].type = "movie" => Len(catalog[i].streamingLinks) > 0

\* C2: every persisted movie record has a non-empty streamingLinks, and a
\* /done sent in movie_links with no link persists nothing and leaves the
\* session as it is, still at movie_links.
C2_MovieLinksNonEmpty ==
    /\ []MovieRecordsHaveLinks
    /\ [][out'.reply.text = RNeedLink =>
            /\ UNCHANGED <<userStates, arrays, catalog, inflight>>
            /\ StepOf(userStates', out'.user) = "movie_links"
            /\ Deref(arrays', userStates'[out'.user].streamingLinks) = <<>>]_vars

\* C2 witness: /done was just refused for a session with no link
C2_Witness ==
    /\ out.reply.text = RNeedLink
    /\ out.kind = "text"
    /\ StepOf(userStates, out.user) = "movie_links"
    /\ catalog = <<>>

(***************************************************************************)
(* C3                                                                      *)
(***************************************************************************)
EpisodeNumbers(episodes) == [j \in 1..Len(episodes) |-> episodes[j].episodeNumber]
OneTo(n) == [j \in 1..n |-> Num(j)]

\* C3: every series record that is persisted, or handed to the insert, has
\* exactly episodeCount episodes, numbered 1, 2, ..., episodeCount in order,
\* where episodeCount is the count accepted in that session.
C3_EpisodesMatchCount ==
    /\ \A i \in 1..Len(catalog) :
          catalog[i].type = "webseries" =>
              EpisodeNumbers(catalog[i].episodes) = OneTo(Len(catalog[i].episodes))
    /\ \A h \in BagToSet(inflight) :
          h.pc = "saveSeries" =>
              /\ h.state.episodeCount.k = "num"
              /\ Len(h.content.episodes) = h.state.episodeCount.v
              /\ EpisodeNumbers(h.content.episodes) = OneTo(h.state.episodeCount.v)

SaveErrors == {RMovieSaveError, RSeriesSaveError}

\* C5 (as claimed): when the insert fails on the finishing turn the user's
\* session is deleted.
C5_FailedInsertDeletes ==
    [][out'.reply.text \in SaveErrors => ~MapHas(userStates', out'.user)]_vars

\* C5 (amended): when the insert fails on the finishing turn the Map is left
\* as it was, so a session that was present is still present at the same
\* step with the data it referred to; nothing is persisted and the user is
\* asked to try again.
C5_FailedInsertKeeps ==
    [][out'.reply.text \in SaveErrors =>
          /\ userStates' = userStates
          /\ catalog' = catalog
          /\ \A r \in LiveRefs(userStates, EmptyBag) : arrays'[r] = arrays[r]]_vars

\* C5 witness: an insert just failed and the session is still at its
\* finishing step
C5_Witness ==
    /\ out.reply.text \in SaveErrors
    /\ MapHas(userStates, out.user)
    /\ userStates[out.user].step \in {"movie_links", "episode_link"}
    /\ catalog = <<>>


(***************************************************************************)
(* C6                                                                      *)
(***************************************************************************)
\* the order of the steps along the table
StepRank(step) ==
    CASE step = "title" -> 1
      [] step = "thumbnail" -> 2
      [] step \in {"movie_links", "episode_count"} -> 3
      [] step = "episode_title" -> 4
      [] step = "episode_link" -> 5

\* C6: a user's session changes atomically: a handler that stores a session
\* after its thumbnail download stores the session that is current, changed
\* only in thumbnail and step (it does not write back what it read before
\* another handler changed or replaced the session), a handler that deletes
\* the session after its insert deletes the session it persisted, and the
\* step of a session never moves backward (but for the episode loop).
C6_AtomicPerUser ==
    [][\A u \in Users :
          /\ (out'.user = u /\ out'.kind = "download"
                /\ out'.reply.text \in {RMovieLinks, RHowMany}) =>
                /\ StepOf(userStates, u) = "thumbnail"
                /\ userStates'[u] =
                      [userStates[u] EXCEPT !.thumbnail = userStates'[u].thumbnail,
                                            !.step = userStates'[u].step]
          /\ (out'.user = u /\ out'.kind \in SaveKinds
                /\ out'.reply.text \in {RMovieAdded, RSeriesAdded}) =>
                StepOf(userStates, u) \in {"movie_links", "episode_link"}
          /\ (MapHas(userStates, u) /\ MapHas(userStates', u)
                /\ out'.kind \notin MenuKinds) =>
                \/ StepRank(userStates'[u].step) >= StepRank(userStates[u].step)
                \/ /\ userStates[u].step = "episode_link"
                   /\ userStates'[u].step = "episode_title"]_vars

(***************************************************************************)
(* C7                                                                      *)
(***************************************************************************)
\* the text denotes a positive integer
IsPositiveInteger(t) ==
    t # <<>> /\ AllIn(t, DecDigits) /\ DigitsValue(t, 10, 0) >= 1

\* C7: a session at episode_title or episode_link has a positive integer
\* episodeCount and 1 <= currentEpisode <= episodeCount.
C7_CountIsPositive ==
    \A u \in DOMAIN userStates :
        userStates[u].step \in {"episode_title", "episode_link"} =>
            /\ userStates[u].episodeCount.k = "num"
            /\ userStates[u].episodeCount.v >= 1
            /\ userStates[u].currentEpisode.k = "num"
            /\ 1 <= userStates[u].currentEpisode.v
            /\ userStates[u].currentEpisode.v <= userStates[u].episodeCount.v

(***************************************************************************)
(* C8                                                                      *)
(***************************************************************************)
\* C8: when getFile or the download fails the user is asked to try again
\* and the Map and the collection are left as they were; a session at
\* thumbnail stays at thumbnail with no thumbnail reference, its title and
\* type as before.
C8_DownloadFailureKeepsSession ==
    [][out'.reply.text = RDownloadError =>
          /\ out'.kind \in {"getFile", "download"}
          /\ userStates' = userStates
          /\ catalog' = catalog
          /\ StepOf(userStates, out'.user) = "thumbnail" =>
                /\ userStates'[out'.user].step = "thumbnail"
                /\ userStates'[out'.user].thumbnail = Undefined]_vars

\* C8 witness: a download just failed and the session waits for the image
C8_Witness ==
    /\ out.reply.text = RDownloadError
    /\ out.kind = "download"
    /\ StepOf(userStates, out.user) = "thumbnail"
    /\ userStates[out.user].thumbnail = Undefined
    /\ userStates[out.user].title # Undefined

(***************************************************************************)
(* C9                                                                      *)
(***************************************************************************)
\* the input the table expects in a step
ValidFor(step, m) ==
    CASE step = "title"         -> HasText(m)
      [] step = "thumbnail"     -> HasPhoto(m)
      [] step = "episode_count" -> HasText(m) /\ IsPositiveInteger(m.text)
      [] step = "episode_link"  -> HasText(m)
      [] OTHER                  -> TRUE

\* C9: a message that is not valid for the step of the sender's session
\* (title, thumbnail, episode_count, episode_link) is answered with a
\* reprompt and leaves the session at that step.
C9_InvalidInputIsReprompted ==
    [][\A u \in Users, m \in Messages :
          (/\ MapHas(userStates, u)
           /\ ~ValidFor(userStates[u].step, m)
           /\ Apply(u, m, OnMessage(u, m))) =>
              /\ out'.reply.text # NoReply
              /\ StepOf(userStates', u) = StepOf(userStates, u)]_vars

(***************************************************************************)
(* C10                                                                     *)
(***************************************************************************)
\* C10: a message from a user who has no session changes nothing (no
\* session is created or changed, nothing is persisted, no handler is
\* started) and is not answered.
C10_NoSessionNoEffect ==
    [][\A u \in Users :
          (out'.user = u /\ out'.kind \in MessageKinds /\ ~MapHas(userStates, u)) =>
              /\ UNCHANGED <<userStates, arrays, catalog, inflight>>
              /\ out'.reply = Silent]_vars

\* C10 witness: a message of a user without a session was just handled
\* while another user has a session
C10_Witness ==
    /\ out.kind \in MessageKinds
    /\ out.user = "u1"
    /\ ~MapHas(userStates, "u1")
    /\ MapHas(userStates, "u2")
    /\ out.reply = Silent

(***************************************************************************)
(* C11                                                                     *)
(***************************************************************************)
\* the list a session refers to only grows, by one text at its end
GrowsByOneText(before, after) ==
    /\ Len(after) = Len(before) + 1
    /\ SubSeq(after, 1, Len(before)) = before
    /\ after[Len(after)] \in Texts \ {TxtDone}

MovieRecordsAreComplete ==
    \A i \in 1..Len(catalog) :
        catalog[i].type = "movie" =>
            /\ catalog[i].title # Undefined
            /\ catalog[i].thumbnail # Undefined
            /\ \A j \in 1..Len(catalog[i].streamingLinks) :
                  catalog[i].streamingLinks[j] \in Texts \ {TxtDone}

GrowsByOneEpisode(before, after) ==
    /\ Len(after) = Len(before) + 1
    /\ SubSeq(after, 1, Len(before)) = before

\* a session waiting for an episode link holds the title given for it
PendingTitleIsGiven ==
    \A u \in DOMAIN userStates :
        userStates[u].step = "episode_link" =>
            userStates[u].currentEpisodeTitle \in Texts

C13_OneRecordPerFlow ==
    [][\A h \in BagToSet(inflight) :
          (/\ h.pc \in SaveKinds
           /\ inflight' = inflight (-) SetToBag({h})
           /\ catalog' = Append(catalog, h.content)) =>
              MapHas(userStates, h.user)]_vars

(***************************************************************************)
(* C14                                                                     *)
(***************************************************************************)
\* the uploads being written to the thumbnails directory
Downloads == {h \in BagToSet(inflight) : h.pc = "download"}

\* C14: uploads handled for the sessions of different users never get the
\* same generated name: two uploads being written at once have different
\* file names, and an upload being written does not have the name of the
\* asset stored for another user's session.
C14_UploadNamesDiffer ==
    \A h \in Downloads :
        /\ \A g \in Downloads : g.user # h.user => g.filename # h.filename
        /\ \A v \in DOMAIN userStates :
              v # h.user => userStates[v].thumbnail # ThumbnailPath(h.filename)

(***************************************************************************)
(* C15                                                                     *)
(***************************************************************************)
\* the session of v with the contents of the lists it refers to
SessionData(us, arr, v) ==
    IF MapHas(us, v)
    THEN <<us[v], Deref(arr, us[v].streamingLinks), Deref(arr, us[v].episodes)>>
    ELSE <<>>

\* C15: handling an event of one user (a menu selection, a message, a
\* completed or failed getFile, download or insert) leaves the session of
\* every other user as it was: present or absent as before, with the same
\* fields and the same lists.
C15_SessionsIndependent ==
    [][\A v \in Users :
          out'.user # v =>
              SessionData(userStates', arrays', v) = SessionData(userStates, arrays, v)]_vars

\* C15 witness: a download of u1 has just moved u1's session on while u2
\* is in a flow of their own
C15_Witness ==
    /\ out.user = "u1"
    /\ out.kind = "download"
    /\ StepOf(userStates, "u1") = "movie_links"
    /\ StepOf(userStates, "u2") = "thumbnail"
    /\ userStates["u2"].type = "webseries"

(***************************************************************************)
(* C16                                                                     *)
(***************************************************************************)
EpisodeSteps == {"episode_count", "episode_title", "episode_link"}

\* C16: a persisted record has exactly one of streamingLinks / episodes
\* populated, by its kind: a movie has links and no episodes, a series has
\* episodes and no links; a session at movie_links is a movie session and a
\* session at episode_count, episode_title or episode_link is a series
\* session.
C16_OneListByKind ==
    /\ \A i \in 1..Len(catalog) :
          \/ /\ catalog[i].type = "movie"
             /\ catalog[i].streamingLinks # <<>>
             /\ catalog[i].episodes = <<>>
          \/ /\ catalog[i].type = "webseries"
             /\ catalog[i].episodes # <<>>
             /\ catalog[i].streamingLinks = <<>>
    /\ \A u \in DOMAIN userStates :
          /\ userStates[u].step = "movie_links" => userStates[u].type = "movie"
          /\ userStates[u].step \in EpisodeSteps => userStates[u].type = "webseries"

\* C16 witness: a series record was just persisted
C16_Witness ==
    /\ out.reply.text = RSeriesAdded
    /\ Len(catalog) = 1
    /\ catalog[1].type = "webseries"
    /\ Len(catalog[1].episodes) = 1
    /\ catalog[1].streamingLinks = <<>>

(***************************************************************************)
(* C17                                                                     *)
(***************************************************************************)
BrowseKinds == {"start", "view", "edit", "callback"}

\* catalog a is an initial part of catalog b
IsPrefix(a, b) == Len(a) <= Len(b) /\ SubSeq(b, 1, Len(a)) = a

\* C17: the start command, View Content, Edit Content and every callback
\* selection leave the sessions, their lists, the suspended handlers and
\* the persisted records as they were, and no step of any kind changes or
\* removes a persisted record: the catalog only grows at its end.
C17_BrowseChangesNothing ==
    [][/\ out'.kind \in BrowseKinds =>
              UNCHANGED <<userStates, arrays, inflight, catalog>>
       /\ IsPrefix(catalog, catalog')]_vars

\* C17 witness: the edit sub-menu of a persisted record was just shown
C17_Witness ==
    /\ out.kind = "callback"
    /\ out.reply.text = REditing
    /\ Len(catalog) = 1

(***************************************************************************)
(* C18                                                                     *)
(***************************************************************************)
\* C18: an Add Movie / Add Web Series selection leaves the user with a
\* fresh session, whatever session there was: step title, the selected
\* type, no title, no thumbnail, no episode data, and a new empty list that
\* is not the list of the replaced session; the selection is not taken as
\* the input of the current step, starts no handler and persists nothing.
\* What the replaced session had collected is discarded: the fresh session
\* stays as the selection made it until the user's next text (its title)
\* or next selection, so nothing of the replaced session gets back into
\* the session and from there into a record.
C18_SelectionStartsAfresh ==
    /\ [][\A u \in Users :
            (out'.user = u /\ out'.kind \in MenuKinds) =>
                /\ MapHas(userStates', u)
                /\ LET s == userStates'[u]
                       r == IF out'.kind = "add_movie" THEN s.streamingLinks
                            ELSE s.episodes
                   IN  /\ s = (IF out'.kind = "add_movie" THEN NewMovieState(r)
                               ELSE NewSeriesState(r))
                       /\ r # NoRef /\ r \notin DOMAIN arrays
                       /\ arrays'[r] = <<>>
                /\ catalog' = catalog
                /\ inflight' = inflight
                /\ out'.reply.text \in {RMovieTitle, RSeriesTitle}]_vars
    /\ [][\A u \in Users :
            (/\ StepOf(userStates, u) = "title"
             /\ MapHas(userStates', u)
             /\ userStates'[u] # userStates[u]) =>
                /\ out'.user = u
                /\ out'.kind \in MenuKinds \cup {"text"}]_vars

(***************************************************************************)
(* C19                                                                     *)
(***************************************************************************)
\* all but the last element
Front(q) == SubSeq(q, 1, Len(q) - 1)

\* the series documents handed to the insert or persisted
SeriesDocuments ==
    {catalog[i] : i \in {j \in 1..Len(catalog) : catalog[j].type = "webseries"}}
      \cup {h.content : h \in {g \in BagToSet(inflight) : g.pc = "saveSeries"}}

NoEpisodeNumberTwice(episodes) ==
    \A i, j \in 1..Len(episodes) :
        episodes[i].episodeNumber = episodes[j].episodeNumber => i = j

\* C19: a failed insert leaves the session's data as it was before the
\* finishing turn: when the insert of a series fails and the session is
\* still the one the turn read (same step, same current episode), its
\* episode list is the list from before the turn, without the episode of
\* the failed attempt; hence no document has an episodeNumber twice.
C19_FailedInsertRestoresList ==
    /\ [][\A h \in BagToSet(inflight) :
            (/\ h.pc = "saveSeries"
             /\ inflight' = inflight (-) SetToBag({h})
             /\ out'.reply.text = RSeriesSaveError
             /\ MapHas(userStates', h.user)
             /\ userStates'[h.user] = h.state) =>
                Deref(arrays', h.state.episodes) = Front(h.content.episodes)]_vars
    /\ [](\A d \in SeriesDocuments : NoEpisodeNumberTwice(d.episodes))

(***************************************************************************)
(* C20                                                                     *)
(***************************************************************************)
\* C20: a session entry is created only by an Add Movie / Add Web Series
\* selection: a user without a session gets one by no other step, so a
\* session deleted after a successful insert does not come back before
\* the user's next selection.
C20_OnlySelectionCreates ==
    [][\A u \in Users :
          (~MapHas(userStates, u) /\ MapHas(userStates', u)) =>
              out'.user = u /\ out'.kind \in MenuKinds]_vars

====
